---- MODULE Spec2Model ----
(***************************************************************************)
(* Model of src/opencole/inference/langchain_helper.py: the model factory  *)
(* (setup_model), the embedding provider factory (initialize_embeddings),  *)
(* the example-selection dispatch (setup_examples_or_its_selector), the    *)
(* RandomExampleSelector class and the prompt assembler (setup_prompt).    *)
(*                                                                         *)
(* A caller makes one setup call (setup_model, setup_prompt or              *)
(* setup_examples_or_its_selector) from a fresh process state and then     *)
(* uses what it returned any number of times; every action is one whole    *)
(* call.  The setup functions keep no state between calls except the       *)
(* filesystem, which Init draws from every state they can leave it in.     *)
(* The caller keeps the objects the last setup  *)
(* call involved: the list it passed (callerList), the list setup_prompt   *)
(* built at line 128 (localList), the selector object a setup call made    *)
(* (selector), the mapping returned by setup_examples_or_its_selector      *)
(* (ret) and the template returned by setup_prompt (prompt).  A list is    *)
(* referred to by name ("caller", "local"), so that two references to one  *)
(* list object see each other's appends.  `last` describes the call just   *)
(* made, `trace` the library and helper calls it performed, in order, and  *)
(* `setup` the setup call the objects held come from.                      *)
(*                                                                         *)
(* Python's None is the string "None"; absent objects are records with a   *)
(* kind/present field so that every variable keeps one shape.  Calls into  *)
(* third-party constructors are taken to return; random.sample raises      *)
(* ValueError for k < 0 or k > len(population), as CPython does.           *)
(***************************************************************************)
EXTENDS Integers, Sequences, FiniteSets, TLC

VARIABLES fs, callerList, localList, selector, ret, prompt, model, setup, last, trace

vars == <<fs, callerList, localList, selector, ret, prompt, model, setup, last, trace>>

None == "None"

\* ---------------------------------------------------------------- bounds
MaxLen == 3
MaxK == 3

\* ---------------------------------------------------------------- inputs
SUFFIX == "Make a detailed plan to for a graphic design for the following request: '{intention}'."
CHAT_SYSTEM_MESSAGE == "You are an helpful AI Assistant. {format_instructions}"

\* class Example(NamedTuple): intention, detail, id
ExamplePool ==
    { [intention |-> "i1", detail |-> "d1", id |-> "x1"],
      [intention |-> "i2", detail |-> "d2", id |-> None] }

ExampleLists == UNION { [1..n -> ExamplePool] : n \in 0..MaxLen }
Strategies == {"similarity", "random", "fixed", "nearest", "Random"}
Ks == (0 - 1)..MaxK
CachePaths == {None, "cache/hf/emb"}
Ids == {None, "name"}
Intentions == {"q1", "q2"}
FormatInstructions == {"fmt"}
EnvValues == {None, "2024-02-01"}

\* ------------------------------------------------------------ filesystem
\* Path(p).parent and the chain of directories mkdir(parents=True) creates.
Parent(p) ==
    CASE p = "cache/hf/emb" -> "cache/hf"
      [] p = "cache/hf" -> "cache"
      [] OTHER -> "."

Ancestors(p) ==
    CASE p = "cache/hf/emb" -> {"cache/hf", "cache", "."}
      [] p = "cache/hf" -> {"cache", "."}
      [] p = "cache" -> {"."}
      [] OTHER -> {}

\* The filesystem before a call: the cache path missing with no parent, missing
\* with its parent present, or present.
AllPaths == {".", "cache", "cache/hf", "cache/hf/emb"}
FsStates ==
    { {"."}, {".", "cache", "cache/hf"}, {".", "cache", "cache/hf", "cache/hf/emb"} }

\* ------------------------------------------------------------ random.sample
Min(a, b) == IF a < b THEN a ELSE b

Range(s) == { s[i] : i \in 1..Len(s) }

InjSeqs(n, k) == { s \in [1..k -> 1..n] : \A i, j \in 1..k : i # j => s[i] # s[j] }

Pick(population, idx) == [i \in 1..Len(idx) |-> population[idx[i]]]

\* random.sample(population, k): the possible results; none when it raises.
random_sample(population, k) ==
    IF k < 0 \/ k > Len(population)
    THEN {}
    ELSE { Pick(population, idx) : idx \in InjSeqs(Len(population), k) }

\* ------------------------------------------------------------ setup_model
NoModel == [kind |-> "none", name |-> None, api_version |-> None, max_tokens |-> 0]

\* Variant of setup_model that tests repo_id before model_id.
setup_model_repo_first(model_id, repo_id, azure_openai_model_name, env) ==
    IF repo_id # None
    THEN [err |-> "none",
          model |-> [kind |-> "HuggingFaceHub", name |-> repo_id,
                     api_version |-> None, max_tokens |-> 64],
          trace |-> <<"HuggingFaceHub">>]
    ELSE IF model_id # None
    THEN [err |-> "none",
          model |-> [kind |-> "HuggingFacePipeline", name |-> model_id,
                     api_version |-> None, max_tokens |-> 64],
          trace |-> <<"AutoTokenizer.from_pretrained", "AutoModelForCausalLM.from_pretrained",
                      "pipeline", "HuggingFacePipeline">>]
    ELSE IF azure_openai_model_name # None
    THEN [err |-> "none",
          model |-> [kind |-> "AzureChatOpenAI", name |-> azure_openai_model_name,
                     api_version |-> env, max_tokens |-> 0],
          trace |-> <<"os.getenv", "AzureChatOpenAI">>]
    ELSE [err |-> "NotImplementedError", model |-> NoModel, trace |-> <<>>]

\* setup_model(model_id, repo_id, azure_openai_model_name), with the value
\* os.getenv("AZURE_OPENAI_API_VERSION") has at the call.
setup_model(model_id, repo_id, azure_openai_model_name, env) ==
    IF model_id # None
    THEN [err |-> "none",
          model |-> [kind |-> "HuggingFacePipeline", name |-> model_id,
                     api_version |-> None, max_tokens |-> 64],
          trace |-> <<"AutoTokenizer.from_pretrained", "AutoModelForCausalLM.from_pretrained",
                      "pipeline", "HuggingFacePipeline">>]
    ELSE IF repo_id # None
    THEN [err |-> "none",
          model |-> [kind |-> "HuggingFaceHub", name |-> repo_id,
                     api_version |-> None, max_tokens |-> 64],
          trace |-> <<"HuggingFaceHub">>]
    ELSE IF azure_openai_model_name # None
    THEN [err |-> "none",
          model |-> [kind |-> "AzureChatOpenAI", name |-> azure_openai_model_name,
                     api_version |-> env, max_tokens |-> 0],
          trace |-> <<"os.getenv", "AzureChatOpenAI">>]
    ELSE [err |-> "NotImplementedError", model |-> NoModel, trace |-> <<>>]

\* ------------------------------------------------- initialize_embeddings
NoEmbeddings == [cached |-> FALSE, store |-> None, namespace |-> None]

\* initialize_embeddings(embeddings_cache_name) on filesystem f: the embeddings
\* object, the filesystem afterwards and the calls made.
initialize_embeddings(embeddings_cache_name, f) ==
    IF embeddings_cache_name # None
    THEN LET mk == embeddings_cache_name \notin f /\ Parent(embeddings_cache_name) \notin f
         IN [embeddings |-> [cached |-> TRUE, store |-> embeddings_cache_name,
                             namespace |-> "hfemb_default"],
             fs |-> IF mk
                    THEN f \cup {Parent(embeddings_cache_name)}
                           \cup Ancestors(Parent(embeddings_cache_name))
                    ELSE f,
             trace |-> <<"initialize_embeddings", "HuggingFaceEmbeddings">>
                       \o (IF mk THEN <<"mkdir">> ELSE <<>>)
                       \o <<"LocalFileStore", "CacheBackedEmbeddings.from_bytes_store">>]
    ELSE [embeddings |-> NoEmbeddings, fs |-> f,
          trace |-> <<"initialize_embeddings", "HuggingFaceEmbeddings">>]

\* ------------------------------------------------- RandomExampleSelector
NoSelector == [kind |-> "none", examples |-> "none", k |-> 0,
               index |-> <<>>, embeddings |-> NoEmbeddings]

\* RandomExampleSelector.__init__(examples, k); examples is a reference.
RandomExampleSelector(examples, k) ==
    [kind |-> "random", examples |-> examples, k |-> k,
     index |-> <<>>, embeddings |-> NoEmbeddings]

\* Variant of add_example that inserts at the front.
add_example_front(examples, k, example) ==
    [examples |-> <<example>> \o examples, k |-> k]

\* add_example(example) on a selector whose list holds `examples`: the fields after.
add_example(examples, k, example) ==
    [examples |-> Append(examples, example), k |-> k]

\* Variant of select_examples that draws with replacement (random.choices).
select_examples_with_replacement(examples, k, args) ==
    IF k < 0 \/ k > Len(examples)
    THEN { [err |-> "ValueError", out |-> <<>>, examples |-> examples, k |-> k] }
    ELSE { [err |-> "none", out |-> Pick(examples, idx), examples |-> examples, k |-> k] :
             idx \in [1..k -> 1..Len(examples)] }

\* select_examples(*args, **kwargs): the possible outcomes, each with the
\* selector's fields after the call.
select_examples(examples, k, args) ==
    IF random_sample(examples, k) = {}
    THEN { [err |-> "ValueError", out |-> <<>>, examples |-> examples, k |-> k] }
    ELSE { [err |-> "none", out |-> s, examples |-> examples, k |-> k] :
             s \in random_sample(examples, k) }

\* SemanticSimilarityExampleSelector.select_examples: up to k of the indexed
\* examples, nearest first (the order is the vector store's).
similarity_select(index, k, args) ==
    { Pick(index, idx) : idx \in InjSeqs(Len(index), Min(IF k < 0 THEN 0 ELSE k, Len(index))) }

\* ---------------------------------------- setup_examples_or_its_selector
NoKwargs == [keys |-> {}, example_selector |-> None, examples |-> <<>>]

\* An outcome of the dispatch: the error raised ("none" when it returns), the
\* mapping returned, the selector object built, what the examples list holds
\* afterwards, the filesystem afterwards and the calls made.
Outcome(err, kwargs, sel, contents, f, tr) ==
    [err |-> err, kwargs |-> kwargs, selector |-> sel, contents |-> contents,
     fs |-> f, trace |-> tr]

\* Variant of the similarity branch without the assertion on the cache name.
SimilarityBranch_no_assert(contents, k, embeddings_cache_name, f) ==
    LET e == initialize_embeddings(embeddings_cache_name, f)
    IN { Outcome("none",
                 [keys |-> {"example_selector"}, example_selector |-> "selector",
                  examples |-> <<>>],
                 [kind |-> "similarity", examples |-> "none", k |-> k,
                  index |-> contents, embeddings |-> e.embeddings],
                 contents, e.fs,
                 e.trace \o <<"SemanticSimilarityExampleSelector.from_examples">>) }

\* The branch few_shot_by == "similarity" (lines 158-173).
SimilarityBranch(contents, k, embeddings_cache_name, f) ==
    IF embeddings_cache_name = None
    THEN { Outcome("AssertionError", NoKwargs, NoSelector, contents, f, <<>>) }
    ELSE LET e == initialize_embeddings(embeddings_cache_name, f)
         IN { Outcome("none",
                      [keys |-> {"example_selector"}, example_selector |-> "selector",
                       examples |-> <<>>],
                      [kind |-> "similarity", examples |-> "none", k |-> k,
                       index |-> contents, embeddings |-> e.embeddings],
                      contents, e.fs,
                      e.trace \o <<"SemanticSimilarityExampleSelector.from_examples">>) }

\* Variant of the random branch that reduces k to the number of examples.
RandomBranch_clamped(examples, contents, k, f) ==
    { Outcome("none",
              [keys |-> {"example_selector"}, example_selector |-> "selector",
               examples |-> <<>>],
              RandomExampleSelector(examples, Min(k, Len(contents))),
              contents, f, <<"RandomExampleSelector">>) }

\* The branch few_shot_by == "random" (lines 174-175).
RandomBranch(examples, contents, k, f) ==
    { Outcome("none",
              [keys |-> {"example_selector"}, example_selector |-> "selector",
               examples |-> <<>>],
              RandomExampleSelector(examples, k),
              contents, f, <<"RandomExampleSelector">>) }

\* Variant of the fixed branch that draws with replacement (random.choices).
FixedBranch_with_replacement(contents, k, f) ==
    IF k < 0 \/ k > Len(contents)
    THEN { Outcome("ValueError", NoKwargs, NoSelector, contents, f, <<"random.sample">>) }
    ELSE { Outcome("none",
                   [keys |-> {"examples"}, example_selector |-> None,
                    examples |-> Pick(contents, idx)],
                   NoSelector, contents, f, <<"random.sample">>) :
             idx \in [1..k -> 1..Len(contents)] }

\* The branch few_shot_by == "fixed" (lines 176-177).
FixedBranch(contents, k, f) ==
    IF random_sample(contents, k) = {}
    THEN { Outcome("ValueError", NoKwargs, NoSelector, contents, f, <<"random.sample">>) }
    ELSE { Outcome("none",
                   [keys |-> {"examples"}, example_selector |-> None, examples |-> s],
                   NoSelector, contents, f, <<"random.sample">>) :
             s \in random_sample(contents, k) }

\* Variant of the dispatch that falls back to 'random' for an unknown strategy.
dispatch_default_random(examples, contents, few_shot_by, k, embeddings_cache_name, f) ==
    IF few_shot_by = "similarity"
    THEN SimilarityBranch(contents, k, embeddings_cache_name, f)
    ELSE IF few_shot_by = "fixed"
    THEN FixedBranch(contents, k, f)
    ELSE RandomBranch(examples, contents, k, f)

\* Variant of the dispatch that builds a selector for 'fixed' as for 'random'.
dispatch_fixed_lazy(examples, contents, few_shot_by, k, embeddings_cache_name, f) ==
    IF few_shot_by = "similarity"
    THEN SimilarityBranch(contents, k, embeddings_cache_name, f)
    ELSE IF few_shot_by \in {"random", "fixed"}
    THEN RandomBranch(examples, contents, k, f)
    ELSE { Outcome("NotImplementedError", NoKwargs, NoSelector, contents, f, <<>>) }

\* setup_examples_or_its_selector(examples, few_shot_by, k, embeddings_cache_name):
\* `examples` is the reference to the list and `contents` what it holds.
setup_examples_or_its_selector(examples, contents, few_shot_by, k, embeddings_cache_name, f) ==
    IF few_shot_by = "similarity"
    THEN SimilarityBranch(contents, k, embeddings_cache_name, f)
    ELSE IF few_shot_by = "random"
    THEN RandomBranch(examples, contents, k, f)
    ELSE IF few_shot_by = "fixed"
    THEN FixedBranch(contents, k, f)
    ELSE { Outcome("NotImplementedError", NoKwargs, NoSelector, contents, f, <<>>) }

\* ------------------------------------------------------------ setup_prompt
NoPrompt == [present |-> FALSE, messages |-> <<>>, input_variables |-> {},
             format_instructions |-> None]

Slot(kind, template, kwargs) ==
    [kind |-> kind, template |-> template, keys |-> kwargs.keys,
     example_selector |-> kwargs.example_selector, examples |-> kwargs.examples]

SystemSlot == Slot("system", CHAT_SYSTEM_MESSAGE, NoKwargs)
HumanSlot == Slot("human", SUFFIX, NoKwargs)

\* {key: getattr(e, key) for key in ["intention", "detail"]} (line 129)
ToDict(e) == [intention |-> e.intention, detail |-> e.detail]

\* The list built at lines 128-130.
ToDicts(contents) == [i \in 1..Len(contents) |-> ToDict(contents[i])]

Template(messages, format_instructions) ==
    [present |-> TRUE, messages |-> messages, input_variables |-> {"intention"},
     format_instructions |-> format_instructions]

\* An outcome of setup_prompt: the error raised, the template returned, the
\* selector object built, what the caller's list and the list of lines 128-130
\* hold afterwards, the filesystem afterwards and the calls made.
PromptOutcome(err, p, sel, contents, locals, f, tr) ==
    [err |-> err, prompt |-> p, selector |-> sel, contents |-> contents,
     localList |-> locals, fs |-> f, trace |-> tr]

\* Lines 119-139: the example prompt, the list of dicts, the dispatch and the
\* few-shot block appended to the messages.
FewShotBuild(contents, format_instructions, few_shot_by, k, embeddings_cache_name, f) ==
    { PromptOutcome(o.err,
                    IF o.err = "none"
                    THEN Template(<<SystemSlot, Slot("fewshot", "{detail}", o.kwargs),
                                    HumanSlot>>, format_instructions)
                    ELSE NoPrompt,
                    o.selector, contents, o.contents, o.fs,
                    <<"setup_examples_or_its_selector">> \o o.trace) :
      o \in setup_examples_or_its_selector("local", ToDicts(contents), few_shot_by, k,
                                           embeddings_cache_name, f) }

\* Variant of the k-shot part without the assertion on the example list.
FewShotPart_no_assert(contents, format_instructions, few_shot_by, k, embeddings_cache_name, f) ==
    FewShotBuild(contents, format_instructions, few_shot_by, k, embeddings_cache_name, f)

\* The k-shot part of setup_prompt (lines 118-139), entered when k > 0.
FewShotPart(contents, format_instructions, few_shot_by, k, embeddings_cache_name, f) ==
    IF Len(contents) = 0
    THEN { PromptOutcome("AssertionError", NoPrompt, NoSelector, contents, <<>>, f, <<>>) }
    ELSE FewShotBuild(contents, format_instructions, few_shot_by, k, embeddings_cache_name, f)

\* Variant of setup_prompt that enters the k-shot part for k = 0 too.
setup_prompt_ge(contents, format_instructions, few_shot_by, k, embeddings_cache_name, f) ==
    IF k >= 0
    THEN FewShotPart(contents, format_instructions, few_shot_by, k, embeddings_cache_name, f)
    ELSE { PromptOutcome("none", Template(<<SystemSlot, HumanSlot>>, format_instructions),
                         NoSelector, contents, <<>>, f, <<>>) }

\* setup_prompt(examples, format_instructions, few_shot_by, k, embeddings_cache_name)
setup_prompt(contents, format_instructions, few_shot_by, k, embeddings_cache_name, f) ==
    IF k > 0
    THEN FewShotPart(contents, format_instructions, few_shot_by, k, embeddings_cache_name, f)
    ELSE { PromptOutcome("none", Template(<<SystemSlot, HumanSlot>>, format_instructions),
                         NoSelector, contents, <<>>, f, <<>>) }

\* ------------------------------------------------------------ rendering
Msg(role, template, arg) == [role |-> role, template |-> template, arg |-> arg]

\* The few-shot block's messages: per example a human turn, then an AI turn.
FewShotMessages(exs) ==
    [i \in 1..(2 * Len(exs)) |->
        IF i % 2 = 1
        THEN Msg("human", SUFFIX, exs[(i + 1) \div 2].intention)
        ELSE Msg("ai", "{detail}", exs[i \div 2].detail)]

HasFewShot(p) == \E i \in 1..Len(p.messages) : p.messages[i].kind = "fewshot"

FewShotSlot(p) == p.messages[CHOOSE i \in 1..Len(p.messages) : p.messages[i].kind = "fewshot"]

\* The examples a few-shot block uses at one render: its static list, or what
\* its selector returns for the render's input; with the selector's fields after.
BlockExamples(slot, sel, selContents, intention) ==
    IF "examples" \in slot.keys
    THEN { [err |-> "none", out |-> slot.examples, examples |-> selContents, k |-> sel.k,
            trace |-> <<>>] }
    ELSE IF sel.kind = "random"
    THEN { [err |-> o.err, out |-> o.out, examples |-> o.examples, k |-> o.k,
            trace |-> <<"select_examples", "random.sample">>] :
             o \in select_examples(selContents, sel.k, [intention |-> intention]) }
    ELSE { [err |-> "none", out |-> s, examples |-> selContents, k |-> sel.k,
            trace |-> <<"select_examples">>] :
             s \in similarity_select(sel.index, sel.k, [intention |-> intention]) }

\* prompt.format_messages(intention=...): the rendered message sequence.
format_messages(p, sel, selContents, intention) ==
    LET sys == <<Msg("system", CHAT_SYSTEM_MESSAGE, p.format_instructions)>>
        fin == <<Msg("human", SUFFIX, intention)>>
    IN IF HasFewShot(p)
       THEN { [err |-> b.err, out |-> b.out, examples |-> b.examples, k |-> b.k,
               trace |-> b.trace,
               msgs |-> IF b.err = "none" THEN sys \o FewShotMessages(b.out) \o fin ELSE <<>>] :
                b \in BlockExamples(FewShotSlot(p), sel, selContents, intention) }
       ELSE { [err |-> "none", out |-> <<>>, examples |-> selContents, k |-> sel.k,
               trace |-> <<>>, msgs |-> sys \o fin] }

\* ------------------------------------------------------------ the caller
NoExample == [intention |-> None, detail |-> None, id |-> None]

NoArgs ==
    [examples |-> <<>>, few_shot_by |-> None, k |-> 0, embeddings_cache_name |-> None,
     format_instructions |-> None, model_id |-> None, repo_id |-> None,
     azure_openai_model_name |-> None, env |-> None, intention |-> None,
     example |-> NoExample]

\* The record of one call: the operation, its arguments, the error it raised
\* ("none" when it returned), the examples it returned or used, the messages
\* it rendered, and the filesystem before it.
Call(op, args, err, out, msgs, f0) ==
    [op |-> op, args |-> args, err |-> err, out |-> out, msgs |-> msgs, fs0 |-> f0]

\* What the list a reference names holds.
Deref(ref) ==
    IF ref = "caller" THEN callerList ELSE IF ref = "local" THEN localList ELSE <<>>

Init ==
    /\ fs \in FsStates
    /\ callerList = <<>>
    /\ localList = <<>>
    /\ selector = NoSelector
    /\ ret = NoKwargs
    /\ prompt = NoPrompt
    /\ model = NoModel
    /\ setup = Call("init", NoArgs, "none", <<>>, <<>>, fs)
    /\ last = Call("init", NoArgs, "none", <<>>, <<>>, fs)
    /\ trace = <<>>

\* model = setup_model(model_id, repo_id, azure_openai_model_name)
CallSetupModel ==
    /\ last.op = "init"
    /\ \E m \in Ids, r \in Ids, a \in Ids, env \in EnvValues :
         LET o == setup_model(m, r, a, env)
         IN /\ model' = IF o.err = "none" THEN o.model ELSE NoModel
            /\ trace' = o.trace
            /\ last' = Call("setup_model",
                            [NoArgs EXCEPT !.model_id = m, !.repo_id = r,
                                           !.azure_openai_model_name = a, !.env = env],
                            o.err, <<>>, <<>>, fs)
            /\ setup' = last'
            /\ UNCHANGED <<fs, callerList, localList, selector, ret, prompt>>

\* ret = setup_examples_or_its_selector(examples, few_shot_by, k, embeddings_cache_name)
CallSetupExamples ==
    /\ last.op = "init"
    /\ \E ex \in ExampleLists, s \in Strategies, k \in Ks, c \in CachePaths :
         \E o \in setup_examples_or_its_selector("caller", ex, s, k, c, fs) :
             /\ callerList' = o.contents
             /\ localList' = <<>>
             /\ selector' = o.selector
             /\ ret' = o.kwargs
             /\ prompt' = NoPrompt
             /\ fs' = o.fs
             /\ trace' = o.trace
             /\ last' = Call("setup_examples_or_its_selector",
                             [NoArgs EXCEPT !.examples = ex, !.few_shot_by = s, !.k = k,
                                            !.embeddings_cache_name = c],
                             o.err, <<>>, <<>>, fs)
             /\ setup' = last'
             /\ UNCHANGED model

\* prompt = setup_prompt(examples, format_instructions, few_shot_by, k, embeddings_cache_name)
CallSetupPrompt ==
    /\ last.op = "init"
    /\ \E ex \in ExampleLists, fi \in FormatInstructions, s \in Strategies, k \in Ks,
        c \in CachePaths :
         \E o \in setup_prompt(ex, fi, s, k, c, fs) :
             /\ callerList' = o.contents
             /\ localList' = o.localList
             /\ selector' = o.selector
             /\ ret' = NoKwargs
             /\ prompt' = o.prompt
             /\ fs' = o.fs
             /\ trace' = o.trace
             /\ last' = Call("setup_prompt",
                             [NoArgs EXCEPT !.examples = ex, !.format_instructions = fi,
                                            !.few_shot_by = s, !.k = k,
                                            !.embeddings_cache_name = c],
                             o.err, <<>>, <<>>, fs)
             /\ setup' = last'
             /\ UNCHANGED model

\* selector.select_examples({"intention": q}) on the RandomExampleSelector held
CallSelectExamples ==
    /\ selector.kind = "random"
    /\ \E q \in Intentions :
        \E o \in select_examples(Deref(selector.examples), selector.k, [intention |-> q]) :
            /\ callerList' = IF selector.examples = "caller" THEN o.examples ELSE callerList
            /\ localList' = IF selector.examples = "local" THEN o.examples ELSE localList
            /\ selector' = [selector EXCEPT !.k = o.k]
            /\ trace' = <<"random.sample">>
            /\ last' = Call("select_examples", [NoArgs EXCEPT !.intention = q],
                            o.err, o.out, <<>>, fs)
            /\ UNCHANGED <<fs, ret, prompt, model, setup>>

\* selector.add_example(e) on the RandomExampleSelector held
CallAddExample ==
    /\ selector.kind = "random"
    /\ Len(Deref(selector.examples)) < MaxLen
    /\ \E e \in ExamplePool :
        LET o == add_example(Deref(selector.examples), selector.k,
                             IF selector.examples = "local" THEN ToDict(e) ELSE e)
        IN /\ callerList' = IF selector.examples = "caller" THEN o.examples ELSE callerList
           /\ localList' = IF selector.examples = "local" THEN o.examples ELSE localList
           /\ selector' = [selector EXCEPT !.k = o.k]
           /\ trace' = <<>>
           /\ last' = Call("add_example", [NoArgs EXCEPT !.example = e],
                           "none", <<>>, <<>>, fs)
           /\ UNCHANGED <<fs, ret, prompt, model, setup>>

\* prompt.format_messages(intention=q) on the template held
CallRender ==
    /\ prompt.present
    /\ \E q \in Intentions :
        \E o \in format_messages(prompt, selector, Deref(selector.examples), q) :
            /\ callerList' = IF selector.examples = "caller" THEN o.examples ELSE callerList
            /\ localList' = IF selector.examples = "local" THEN o.examples ELSE localList
            /\ selector' = [selector EXCEPT !.k = o.k]
            /\ trace' = o.trace
            /\ last' = Call("format_messages", [NoArgs EXCEPT !.intention = q],
                            o.err, o.out, o.msgs, fs)
            /\ UNCHANGED <<fs, ret, prompt, model, setup>>

Next ==
    \/ CallSetupModel
    \/ CallSetupExamples
    \/ CallSetupPrompt
    \/ CallSelectExamples
    \/ CallAddExample
    \/ CallRender

Spec == Init /\ [][Next]_vars

\* ------------------------------------------------------------ properties
InTrace(e) == \E i \in 1..Len(trace) : trace[i] = e

Count(e) == Cardinality({ i \in 1..Len(trace) : trace[i] = e })

Kinds(p) == [i \in 1..Len(p.messages) |-> p.messages[i].kind]

IsSetupCall == last.op \in {"setup_examples_or_its_selector", "setup_prompt"}

\* The list the dispatch was given by the setup call, as it was then.
SetupList ==
    IF setup.op = "setup_prompt" THEN ToDicts(setup.args.examples) ELSE setup.args.examples

\* The list the selector held samples from, as it is now.
Current == Deref(selector.examples)

EmbeddingEvents ==
    {"initialize_embeddings", "HuggingFaceEmbeddings", "mkdir", "LocalFileStore",
     "CacheBackedEmbeddings.from_bytes_store",
     "SemanticSimilarityExampleSelector.from_examples"}

NoEmbeddingWork == Range(trace) \cap EmbeddingEvents = {} /\ fs = last.fs0

\* C1: setup_model builds and returns exactly the backend of the first non-null
\* parameter in the order model_id, repo_id, azure_openai_model_name, invokes no
\* other backend's constructor, and with all three null raises
\* NotImplementedError having constructed nothing.
C1_FirstNonNullWins ==
    last.op = "setup_model" =>
        LET a == last.args
        IN /\ a.model_id # None =>
                /\ last.err = "none"
                /\ model.kind = "HuggingFacePipeline" /\ model.name = a.model_id
                /\ "HuggingFacePipeline" \in Range(trace)
                /\ Range(trace) \cap {"HuggingFaceHub", "AzureChatOpenAI"} = {}
           /\ (a.model_id = None /\ a.repo_id # None) =>
                /\ last.err = "none"
                /\ model.kind = "HuggingFaceHub" /\ model.name = a.repo_id
                /\ trace = <<"HuggingFaceHub">>
           /\ (a.model_id = None /\ a.repo_id = None /\ a.azure_openai_model_name # None) =>
                /\ last.err = "none"
                /\ model.kind = "AzureChatOpenAI" /\ model.name = a.azure_openai_model_name
                /\ "AzureChatOpenAI" \in Range(trace)
                /\ Range(trace) \cap {"HuggingFaceHub", "HuggingFacePipeline", "pipeline",
                                      "AutoTokenizer.from_pretrained",
                                      "AutoModelForCausalLM.from_pretrained"} = {}
           /\ (a.model_id = None /\ a.repo_id = None /\ a.azure_openai_model_name = None) =>
                /\ last.err = "NotImplementedError"
                /\ model = NoModel
                /\ trace = <<>>

C1_Witness ==
    /\ last.op = "setup_model"
    /\ last.args.model_id # None /\ last.args.repo_id # None
    /\ last.args.azure_openai_model_name # None
    /\ model.kind = "HuggingFacePipeline"

\* C2: when setup_examples_or_its_selector returns, the mapping has exactly one
\* key, 'example_selector' for 'similarity' and 'random' and 'examples' for
\* 'fixed'; for any other strategy it raises NotImplementedError whatever the
\* other arguments are, without sampling and without building embeddings.
C2_OneKeyByStrategy ==
    last.op = "setup_examples_or_its_selector" =>
        LET a == last.args
        IN /\ last.err = "none" =>
                /\ a.few_shot_by \in {"similarity", "random", "fixed"}
                /\ ret.keys = IF a.few_shot_by = "fixed" THEN {"examples"}
                                                        ELSE {"example_selector"}
           /\ a.few_shot_by \notin {"similarity", "random", "fixed"} =>
                /\ last.err = "NotImplementedError"
                /\ ret = NoKwargs /\ selector = NoSelector
                /\ ~InTrace("random.sample")
                /\ NoEmbeddingWork

C2_Witness ==
    /\ last.op = "setup_examples_or_its_selector"
    /\ last.args.few_shot_by = "Random"
    /\ last.args.k > 0 /\ Len(last.args.examples) >= last.args.k
    /\ last.args.embeddings_cache_name # None
    /\ last.err = "NotImplementedError"

\* C3: for 'similarity' with no cache path setup_examples_or_its_selector fails
\* with an assertion error before any embedding work: initialize_embeddings is
\* not called, no directory is created and no index is built, for every
\* example list and k.
C3_AssertBeforeEmbeddings ==
    (/\ IsSetupCall
     /\ last.args.few_shot_by = "similarity"
     /\ last.args.embeddings_cache_name = None
     /\ last.op = "setup_prompt" => InTrace("setup_examples_or_its_selector")) =>
        /\ last.err = "AssertionError"
        /\ NoEmbeddingWork
        /\ selector = NoSelector /\ ret = NoKwargs /\ ~prompt.present

C3_Witness ==
    /\ last.op = "setup_examples_or_its_selector"
    /\ last.args.few_shot_by = "similarity"
    /\ last.args.embeddings_cache_name = None
    /\ Len(last.args.examples) > 0 /\ last.args.k > 0
    /\ last.err = "AssertionError"
    /\ "cache" \notin fs

\* C4: setup_prompt with k = 0 returns a template of exactly two message slots,
\* system then final human instruction, with no few-shot block, for every
\* example list, strategy and cache path; the dispatch is not called.
C4_ZeroShotTwoSlots ==
    (last.op = "setup_prompt" /\ last.args.k = 0) =>
        /\ last.err = "none"
        /\ prompt.present
        /\ Kinds(prompt) = <<"system", "human">>
        /\ prompt.messages[1].template = CHAT_SYSTEM_MESSAGE
        /\ prompt.messages[2].template = SUFFIX
        /\ trace = <<>>
        /\ selector = NoSelector
        /\ fs = last.fs0

C4_Witness ==
    /\ last.op = "setup_prompt" /\ last.args.k = 0
    /\ last.args.examples = <<>>
    /\ last.args.few_shot_by = "nearest"
    /\ last.args.embeddings_cache_name # None
    /\ Len(prompt.messages) = 2

\* C5: setup_prompt with k > 0 and an empty example list fails with an assertion
\* error and returns no template, for every strategy and cache path, before the
\* dispatch: no sampling, no embedding work, no directory creation.
C5_EmptyListAsserts ==
    (last.op = "setup_prompt" /\ last.args.k > 0 /\ Len(last.args.examples) = 0) =>
        /\ last.err = "AssertionError"
        /\ ~prompt.present
        /\ trace = <<>>
        /\ selector = NoSelector
        /\ fs = last.fs0

C5_Witness ==
    /\ last.op = "setup_prompt" /\ last.args.k > 0
    /\ last.args.examples = <<>>
    /\ last.args.few_shot_by = "nearest"
    /\ last.args.embeddings_cache_name # None
    /\ last.err = "AssertionError"

\* C6: for 'fixed', a call of setup_examples_or_its_selector that returns gives
\* an 'examples' list of exactly k elements taken from k different positions of
\* the input list, and leaves the input list unchanged.
C6_FixedSampleOfK ==
    (/\ last.op = "setup_examples_or_its_selector"
     /\ last.args.few_shot_by = "fixed"
     /\ last.err = "none") =>
        /\ "examples" \in ret.keys
        /\ last.args.k >= 0
        /\ Len(ret.examples) = last.args.k
        /\ \E idx \in InjSeqs(Len(last.args.examples), last.args.k) :
               ret.examples = Pick(last.args.examples, idx)
        /\ callerList = last.args.examples

C6_Witness ==
    /\ last.op = "setup_examples_or_its_selector"
    /\ last.args.few_shot_by = "fixed"
    /\ last.err = "none"
    /\ last.args.k = 2
    /\ Len(last.args.examples) = 3
    /\ ret.examples[1] = ret.examples[2]

\* The messages a render of template p with the few-shot examples exs and the
\* caller's intention q is made of.
Rendered(p, exs, q) ==
    <<Msg("system", CHAT_SYSTEM_MESSAGE, p.format_instructions)>>
        \o FewShotMessages(exs) \o <<Msg("human", SUFFIX, q)>>

FewShotSetup(strategy) ==
    /\ setup.op = "setup_prompt" /\ setup.err = "none"
    /\ setup.args.k > 0 /\ setup.args.few_shot_by = strategy

C7_Static ==
    FewShotSetup("fixed") =>
        /\ HasFewShot(prompt)
        /\ FewShotSlot(prompt).keys = {"examples"}
        /\ selector = NoSelector
        /\ Len(FewShotSlot(prompt).examples) = setup.args.k
        /\ last.op = "setup_prompt" => Count("random.sample") = 1
        /\ last.op = "format_messages" =>
              /\ last.err = "none"
              /\ last.out = FewShotSlot(prompt).examples
              /\ last.msgs = Rendered(prompt, FewShotSlot(prompt).examples, last.args.intention)
              /\ ~InTrace("random.sample") /\ ~InTrace("select_examples")

C7_Lazy ==
    FewShotSetup("random") =>
        /\ HasFewShot(prompt)
        /\ FewShotSlot(prompt).keys = {"example_selector"}
        /\ selector.kind = "random"
        /\ last.op = "setup_prompt" => ~InTrace("random.sample")
        /\ last.op = "format_messages" => Count("random.sample") = 1

\* C7: with 'fixed' the template returned by setup_prompt holds a static example
\* list sampled once during the setup call and no selector, and every later
\* render uses that list, in order, without sampling and without changing the
\* template; with 'random' the block holds a selector and every render samples.
C7_FixedSampledOnce ==
    /\ [](C7_Static /\ C7_Lazy)
    /\ [][(prompt.present /\ last'.op = "format_messages") => prompt' = prompt]_vars

C7_Witness ==
    /\ FewShotSetup("fixed")
    /\ last.op = "format_messages"
    /\ setup.args.k = 2
    /\ last.out = FewShotSlot(prompt).examples
    /\ Len(last.msgs) = 6
    /\ last.out[1] # last.out[2]

\* C8 as stated: every invocation of select_examples on the selector returned
\* for 'random' (with a k that is not negative) yields exactly k elements from
\* k different positions of the example list as it was passed at setup.
C8_Original ==
    (last.op = "select_examples" /\ setup.args.few_shot_by = "random"
        /\ setup.args.k >= 0) =>
        /\ last.err = "none"
        /\ Len(last.out) = setup.args.k
        /\ \E idx \in InjSeqs(Len(SetupList), Len(last.out)) :
               last.out = Pick(SetupList, idx)

\* C8 (amended): an invocation of select_examples on the selector returned for
\* 'random' returns exactly when 0 <= k <= the current length of the selector's
\* list, and then yields exactly k elements from k different positions of that
\* list as it is now, which is the list passed at setup followed by the
\* examples appended since by add_example; otherwise it raises ValueError.
C8_SampleOfCurrentList ==
    (last.op = "select_examples" /\ setup.args.few_shot_by = "random") =>
        /\ selector.k = setup.args.k
        /\ last.err = "none" <=> (0 <= selector.k /\ selector.k <= Len(Current))
        /\ last.err # "none" => last.err = "ValueError"
        /\ last.err = "none" =>
              /\ Len(last.out) = selector.k
              /\ \E idx \in InjSeqs(Len(Current), selector.k) :
                     last.out = Pick(Current, idx)
        /\ Len(SetupList) <= Len(Current)
        /\ SubSeq(Current, 1, Len(SetupList)) = SetupList

C8_Witness ==
    /\ last.op = "select_examples" /\ setup.args.few_shot_by = "random"
    /\ last.err = "none"
    /\ selector.k = 2
    /\ Len(Current) > Len(SetupList)
    /\ \A i \in 1..Len(SetupList) : SetupList[i] # last.out[2]

\* C9 as stated: with k larger than the number of examples, a 'fixed' setup call
\* fails in the sampling primitive, a 'random' setup call (either function)
\* returns, and the error arises at each select_examples invocation made while
\* k exceeds the selector's current list length.
C9_Original ==
    /\ (IsSetupCall /\ last.args.k > Len(last.args.examples)
          /\ last.args.few_shot_by = "fixed") =>
            (last.err = "ValueError" /\ InTrace("random.sample"))
    /\ (IsSetupCall /\ last.args.k > Len(last.args.examples)
          /\ last.args.few_shot_by = "random") =>
            last.err = "none"
    /\ (last.op = "select_examples" /\ selector.k > Len(Current)) =>
            last.err = "ValueError"

\* C9 (amended): as stated, except that setup_prompt called with an empty
\* example list and k > 0 fails its own assertion (AssertionError), for 'fixed'
\* and for 'random', before any sampling or selector construction; in every
\* other case k is never compared with the list length locally and never
\* reduced: 'fixed' fails in random.sample during the setup call, 'random'
\* returns a selector keeping k, and select_examples (directly or at a render)
\* raises ValueError exactly while k exceeds the current list length.
C9_SamplingErrors ==
    /\ (IsSetupCall /\ last.args.k > Len(last.args.examples)
          /\ last.args.few_shot_by \in {"fixed", "random"}) =>
            IF last.op = "setup_prompt" /\ Len(last.args.examples) = 0
            THEN last.err = "AssertionError" /\ trace = <<>> /\ selector = NoSelector
            ELSE IF last.args.few_shot_by = "fixed"
            THEN /\ last.err = "ValueError"
                 /\ trace[Len(trace)] = "random.sample"
                 /\ ret = NoKwargs /\ ~prompt.present
            ELSE /\ last.err = "none"
                 /\ ~InTrace("random.sample")
                 /\ selector.kind = "random" /\ selector.k = last.args.k
                 /\ last.op = "setup_prompt" => prompt.present
                 /\ last.op = "setup_examples_or_its_selector" =>
                        ret.keys = {"example_selector"}
    /\ (last.op \in {"select_examples", "format_messages"}
          /\ selector.kind = "random" /\ selector.k >= 0) =>
            /\ selector.k = setup.args.k
            /\ last.err = "ValueError" <=> selector.k > Len(Current)
            /\ last.err = "none" => Len(last.out) = selector.k
            /\ InTrace("random.sample")

C9_Witness ==
    /\ last.op = "select_examples"
    /\ setup.op = "setup_prompt"
    /\ setup.args.k > Len(setup.args.examples)
    /\ Len(Current) > Len(SetupList)
    /\ selector.k > Len(Current)
    /\ last.err = "ValueError"

UseOps == {"add_example", "select_examples", "format_messages"}

Appended == IF selector.examples = "local" THEN ToDict(last'.args.example)
                                           ELSE last'.args.example

\* C10: on a RandomExampleSelector the stored list changes only by add_example,
\* which appends exactly the given example at the end; select_examples, whether
\* it returns or raises (called directly or by a render), leaves the list and k
\* unchanged; nothing removes or reorders an element and k never changes.
C10_AppendOnly ==
    [][(selector.kind = "random" /\ last'.op \in UseOps) =>
          /\ selector' = selector
          /\ last'.op = "add_example" =>
                /\ Deref(selector.examples)' = Append(Deref(selector.examples), Appended)
                /\ selector.examples = "caller" => localList' = localList
                /\ selector.examples = "local" => callerList' = callerList
          /\ last'.op # "add_example" =>
                /\ callerList' = callerList
                /\ localList' = localList]_vars

C10_Witness ==
    /\ last.op = "select_examples"
    /\ selector.kind = "random"
    /\ Len(Current) = Len(SetupList) + 2
    /\ last.err = "none"
    /\ selector.k = 3

====
